---- MODULE Spec2Model ----
(***************************************************************************)
(* Model of tidal_dl_ng/download.py: the Download class.                   *)
(*                                                                         *)
(* The pure parts (instantiate_media, is_encrypted, get_file_extension,    *)
(* stream_manifest_parse, _extract_video_stream) are operators.  The       *)
(* stateful parts (item, _download) are a state machine over the call      *)
(* arguments, the file system, the progress task, the network requests     *)
(* issued and the position in the code.                                    *)
(*                                                                         *)
(* Conventions: Python None is the string "None"; a URL is a sequence of   *)
(* tokens, and `x in url` is the presence of the token x; an optional      *)
(* integer is <<>> (None) or <<n>>.                                        *)
(***************************************************************************)
EXTENDS Integers, Sequences, FiniteSets, TLC

None == "None"

\* Python truthiness of an optional string / enum member.
Truthy(x) == x # None /\ x # ""

(***************************************************************************)
(* Bounds of the model.                                                    *)
(***************************************************************************)
\* Most renditions listed in a multivariant playlist.
MaxRenditions == 3
\* Most data chunks one response yields through iter_content.
MaxChunks == 2
\* Most passes of the write loop of _download that are followed.
MaxPasses == 2
\* Most timeline entries <S> of an adaptive-streaming manifest.
MaxTimeline == 3
\* Most elements of a collection handed to items().
MaxItems == 2
\* Most passes of the list loop of items() that are followed.
MaxRounds == 2

\* block_size of the single-URL download (download.py line 90).
BlockSize == 4096

(***************************************************************************)
(* Strings as token sequences.                                             *)
(***************************************************************************)
Digits == <<"0", "1", "2", "3", "4", "5", "6", "7", "8", "9">>

RECURSIVE str(_)
\* Python str(n) for n >= 0: the decimal digits of n.
str(n) == IF n < 10 THEN <<Digits[n + 1]>>
          ELSE str(n \div 10) \o <<Digits[(n % 10) + 1]>>

RECURSIVE replace(_, _, _)
\* Python s.replace(old, new) where old is one token: every occurrence.
replace(s, old, new) ==
    IF s = <<>> THEN <<>>
    ELSE (IF Head(s) = old THEN new ELSE <<Head(s)>>) \o replace(Tail(s), old, new)

\* Python `tok in s` for a token.
Contains(s, tok) == \E i \in 1..Len(s) : s[i] = tok

(***************************************************************************)
(* instantiate_media (lines 138-157): the class constructed, or the error. *)
(***************************************************************************)
instantiate_media_any(media_type) ==
    [exc |-> "", media |-> IF media_type = "VIDEO" THEN "Video" ELSE "Track"]

instantiate_media(media_type) ==
    CASE media_type = "TRACK"    -> [exc |-> "", media |-> "Track"]
      [] media_type = "VIDEO"    -> [exc |-> "", media |-> "Video"]
      [] media_type = "ALBUM"    -> [exc |-> "", media |-> "Album"]
      [] media_type = "PLAYLIST" -> [exc |-> "", media |-> "Playlist"]
      [] media_type = "MIX"      -> [exc |-> "", media |-> "Mix"]
      [] OTHER                   -> [exc |-> "MediaUnknown", media |-> None]

(***************************************************************************)
(* is_encrypted (lines 354-357)                                            *)
(***************************************************************************)
is_encrypted(encryption_type) == encryption_type # "NONE"

(***************************************************************************)
(* get_file_extension (lines 359-376)                                      *)
(***************************************************************************)
get_file_extension_mp4_first(stream_url, stream_codec) ==
    IF Contains(stream_url, ".mp4") THEN ".mp4"
    ELSE IF Contains(stream_url, ".flac") THEN ".flac"
    ELSE IF Contains(stream_url, ".ts") THEN ".ts"
    ELSE ".m4a"

get_file_extension(stream_url, stream_codec) ==
    IF Contains(stream_url, ".flac") THEN ".flac"
    ELSE IF Contains(stream_url, ".mp4") THEN ".mp4"
    ELSE IF Contains(stream_url, ".ts") THEN ".ts"
    ELSE ".m4a"

(***************************************************************************)
(* _extract_video_stream (lines 447-462).  m3u8_playlist is the index of   *)
(* the rendition whose media playlist was loaded last, 0 for False; loads  *)
(* counts the m3u8.load(playlist.uri) requests issued.                     *)
(***************************************************************************)
extract_init == [m3u8_playlist |-> 0, resolution_best |-> 0, mime_type |-> "", loads |-> 0]

RECURSIVE extract_loop(_, _, _, _)
extract_loop(playlists, quality, i, acc) ==
    IF i > Len(playlists) THEN acc
    ELSE LET res == playlists[i].resolution IN
         IF acc.resolution_best < res
         THEN LET upd == [m3u8_playlist   |-> i,
                          resolution_best |-> res,
                          mime_type       |-> playlists[i].codecs,
                          loads           |-> acc.loads + 1]
              IN IF quality = res THEN upd
                 ELSE extract_loop(playlists, quality, i + 1, upd)
         ELSE extract_loop(playlists, quality, i + 1, acc)

extract_video_stream(m3u8_variant, quality) ==
    IF m3u8_variant.is_variant
    THEN extract_loop(m3u8_variant.playlists, quality, 1, extract_init)
    ELSE extract_init

(***************************************************************************)
(* stream_manifest_parse (lines 384-445).                                  *)
(*                                                                         *)
(* A raw manifest is [form, body]: form "xml" is a base64-encoded MPD      *)
(* whose body is [Ss, media, codecs, mime_type]; form "json" is a          *)
(* base64-encoded JSON object whose body is that object (a function on the *)
(* keys present); form "url" is the URL of a playlist whose body is what   *)
(* m3u8.load returns, [is_variant, playlists, files]; form "garbage"       *)
(* decodes as nothing.  The result is [exc, sm, loads]: the exception      *)
(* raised ("" for none), the StreamManifest, the playlist requests made.   *)
(***************************************************************************)
NoManifest == [urls |-> <<>>, codecs |-> "", file_extension |-> "",
               encryption_type |-> "", encryption_key |-> "", mime_type |-> ""]

StreamManifest(urls, codecs, encryption_type, encryption_key, mime_type) ==
    [urls            |-> urls,
     codecs          |-> codecs,
     file_extension  |-> get_file_extension(urls[1], codecs),
     encryption_type |-> encryption_type,
     encryption_key  |-> encryption_key,
     mime_type       |-> mime_type]

Raised(exc, loads) == [exc |-> exc, sm |-> NoManifest, loads |-> loads]

RECURSIVE segments_sum_as_given(_)
segments_sum_as_given(Ss) ==
    IF Ss = <<>> THEN 0
    ELSE LET r == Head(Ss)
         IN (IF r # <<>> THEN r[1] ELSE 1) + segments_sum_as_given(Tail(Ss))

RECURSIVE segments_sum(_)
\* lines 397-398: segments_count += s.r if s.r else 1
segments_sum(Ss) ==
    IF Ss = <<>> THEN 0
    ELSE LET r == Head(Ss)
         IN (IF r # <<>> /\ r[1] # 0 THEN r[1] ELSE 1) + segments_sum(Tail(Ss))

parse_mpd(manifest) ==
    IF manifest.form # "xml" THEN Raised("DecodeError", 0)
    ELSE LET mpd == manifest.body
             segments_count == 1 + 1 + segments_sum(mpd.Ss)
             stream_urls == [index \in 1..segments_count |->
                                replace(mpd.media, "$Number$", str(index - 1))]
         IN \* line 434: stream_urls[0] of an empty list
            IF segments_count <= 0 THEN Raised("IndexError", 0)
            ELSE [exc |-> "", loads |-> 0,
                  sm |-> StreamManifest(stream_urls, mpd.codecs, "NONE", None,
                                        mpd.mime_type)]

JsonKeys == {"urls", "codecs", "mimeType", "encryptionType"}

parse_bts(manifest) ==
    IF manifest.form # "json" THEN Raised("DecodeError", 0)
    ELSE LET o == manifest.body IN
         IF ~(JsonKeys \subseteq DOMAIN o) THEN Raised("KeyError", 0)
         ELSE IF is_encrypted(o.encryptionType) /\ "encryptionKey" \notin DOMAIN o
              THEN Raised("KeyError", 0)
         ELSE IF o.urls = <<>> THEN Raised("IndexError", 0)
         ELSE [exc |-> "", loads |-> 0,
               sm |-> StreamManifest(o.urls, o.codecs, o.encryptionType,
                                     IF is_encrypted(o.encryptionType)
                                     THEN o.encryptionKey ELSE None,
                                     o.mimeType)]

parse_video(manifest, quality_video) ==
    IF manifest.form # "url" THEN Raised("DecodeError", 0)
    ELSE LET m3u8_variant == manifest.body
             x == extract_video_stream(m3u8_variant, quality_video)
         IN \* one request for the top-level playlist, x.loads for the renditions
            IF x.m3u8_playlist = 0 THEN Raised("AttributeError", 1 + x.loads)
            ELSE LET stream_urls == m3u8_variant.playlists[x.m3u8_playlist].files IN
                 IF stream_urls = <<>> THEN Raised("IndexError", 1 + x.loads)
                 ELSE [exc |-> "", loads |-> 1 + x.loads,
                       sm |-> StreamManifest(stream_urls, x.mime_type, "NONE", None, "VIDEO")]

stream_manifest_parse_default_bts(manifest, mime_type, quality_video) ==
    CASE mime_type = "MPD"   -> parse_mpd(manifest)
      [] mime_type = "VIDEO" -> parse_video(manifest, quality_video)
      [] OTHER               -> parse_bts(manifest)

stream_manifest_parse(manifest, mime_type, quality_video) ==
    CASE mime_type = "MPD"   -> parse_mpd(manifest)
      [] mime_type = "BTS"   -> parse_bts(manifest)
      [] mime_type = "VIDEO" -> parse_video(manifest, quality_video)
      [] OTHER               -> Raised("UnknownManifestFormat", 0)

(***************************************************************************)
(* Paths and files.  A path is a token sequence <<stem, ext, ...>>.  A     *)
(* file is its data (the chunks written, <<url index, chunk number>>, in   *)
(* order) and what was done to it since.                                   *)
(***************************************************************************)
Exts == {".flac", ".mp4", ".ts", ".m4a"}

\* os.path.join(path_base, format_path_media(...)), lines 186-187
PathBase == <<"base/name">>
\* os.path.join(tmp_path_dir, str(uuid4())), line 214
TmpBase == <<"tmp/uuid">>

DestPaths == {PathBase \o <<e>> : e \in Exts}
TmpPaths == {TmpBase \o <<e>> : e \in Exts} \cup {TmpBase \o <<e, "_decrypted">> : e \in Exts}

\* os.path.splitext(p)[0]: the stem, for a path whose stem holds no dot
splitext0(p) == <<p[1]>>

NoFile == [exists |-> FALSE, data |-> <<>>, origin |-> "", decrypted |-> FALSE,
           tagged |-> FALSE, converted |-> FALSE]
\* a file that is at the destination before item() is called
OldFile == [NoFile EXCEPT !.exists = TRUE, !.origin = "old"]
\* open(path_file, "wb"): created, or truncated
NewFile == [NoFile EXCEPT !.exists = TRUE, !.origin = "item"]

NoFiles(paths) == [p \in paths |-> NoFile]

\* helper/path.py check_file_exists: the file itself, or with extension_ignore any
\* file of the same stem
check_file_exists(fs, path, extension_ignore) ==
    IF extension_ignore
    THEN \E p \in DOMAIN fs : p[1] = path[1] /\ fs[p].exists
    ELSE fs[path].exists

(***************************************************************************)
(* rich.progress: a task is finished once an advance() finds               *)
(* completed >= total; add_task alone never finishes a task.               *)
(***************************************************************************)
NoTask == [exists |-> FALSE, total_num |-> 0, total_den |-> 1, completed |-> 0,
           finished |-> FALSE]

add_task(total_num, total_den) ==
    [exists |-> TRUE, total_num |-> total_num, total_den |-> total_den,
     completed |-> 0, finished |-> FALSE]

advance(task) ==
    LET c == task.completed + 1
    IN [task EXCEPT !.completed = c,
                    !.finished = @ \/ (c * task.total_den >= task.total_num)]

(***************************************************************************)
(* The inputs of the item() state machine.                                 *)
(***************************************************************************)
\* (media_id, media_type) pairs item() is called with
IdTypePairs ==
    {<<None, None>>, <<"", "TRACK">>, <<"id", None>>, <<None, "VIDEO">>,
     <<"id", "TRACK">>, <<"id", "VIDEO">>, <<"id", "ALBUM">>, <<"id", "PLAYLIST">>,
     <<"id", "MIX">>, <<"id", "OTHER">>}

SkipExistingValues == {"Disabled", "ExtensionIgnore", "Filename"}
\* SkipExisting.Disabled.value is False, the other members' values are truthy
skip_value(s) == s # "Disabled"

Qualities == {360, 480, 720, 1080}

XmlManifest(Ss, media) ==
    [form |-> "xml", body |-> [Ss |-> Ss, media |-> media, codecs |-> "flac",
                               mime_type |-> "audio/mp4"]]
JsonObject(urls, etype) ==
    [urls |-> urls, codecs |-> "flac", mimeType |-> "audio/flac", encryptionType |-> etype]
JsonManifest(o) == [form |-> "json", body |-> o]
WithKey(o, k) == [x \in DOMAIN o \cup {"encryptionKey"} |->
                     IF x = "encryptionKey" THEN k ELSE o[x]]
Rendition(res, files) == [resolution |-> res, codecs |-> "avc1", files |-> files]
UrlManifest(is_variant, playlists) ==
    [form |-> "url", body |-> [is_variant |-> is_variant, playlists |-> playlists]]
Garbage == [form |-> "garbage", body |-> <<>>]

FlacUrl == <<"a", ".flac">>
TsUrl(n) == <<"v", Digits[n + 1], ".ts">>

\* what media.stream() answers for a Track: <<manifest, manifest_mime_type>>
TrackStreams ==
    {<<XmlManifest(<<>>, <<"s", "$Number$", ".mp4">>), "MPD">>,
     <<JsonManifest(JsonObject(<<FlacUrl>>, "NONE")), "BTS">>,
     <<JsonManifest(WithKey(JsonObject(<<FlacUrl>>, "OLD_AES"), "KEY")), "BTS">>,
     <<JsonManifest(WithKey(JsonObject(<<FlacUrl>>, "OLD_AES"), None)), "BTS">>,
     <<JsonManifest(JsonObject(<<FlacUrl>>, "OLD_AES")), "BTS">>,
     <<JsonManifest(JsonObject(<<FlacUrl>>, "NONE")), "EMU">>,
     <<JsonManifest(JsonObject(<<FlacUrl>>, "NONE")), "">>,
     <<Garbage, "MPD">>}

\* what m3u8.load(media.get_url()) answers for a Video
VideoPlaylists ==
    {UrlManifest(TRUE, <<Rendition(360, <<TsUrl(0)>>), Rendition(720, <<TsUrl(0), TsUrl(1)>>)>>),
     UrlManifest(TRUE, <<Rendition(720, <<TsUrl(0), TsUrl(1)>>), Rendition(480, <<TsUrl(0)>>)>>),
     UrlManifest(FALSE, <<>>)}

\* content-length headers of the preliminary response (None: no header)
ContentLengths == {<<>>, <<0>>, <<BlockSize>>, <<BlockSize + 1>>}

(***************************************************************************)
(* State.                                                                  *)
(***************************************************************************)
VARIABLES
    pc,              \* the position in item() / _download()
    args,            \* item()'s arguments [media, media_id, media_type, video_download]
    skip_existing,   \* self.skip_existing
    settings,        \* self.settings.data, as far as it was read: [video_convert_mp4, quality_video]
    media,           \* the local `media` of item()
    manifest,        \* the raw manifest
    mime_type,       \* the manifest's MIME type
    stream_manifest, \* the StreamManifest parsed from it
    video_stream,    \* what _extract_video_stream returned
    path_file,       \* the local `path_file` of item(): the destination path
    download_skip,   \* the local `download_skip` of item()
    fs_dest,         \* the files at the destination paths
    fs_dest_at_call, \* the files at the destination paths when item() was called
    tmp_dir,         \* whether the temporary directory exists
    fs_tmp,          \* the files in the temporary directory
    tmp_path_file,   \* the local `tmp_path_file` of item() / `path_file` of _download
    p_task,          \* the progress task of _download
    dl,              \* locals of _download: [block_size, url_i, chunk_n, passes,
                     \*   needs_decryption, tmp_path_file_decrypted]
    net,             \* requests issued: [instantiate, manifest, playlist, content]
    log,             \* calls of the logger: [info, debug, error]
    err_at,          \* where the first transport error of _download happened
    result,          \* how item() ended: [kind, downloaded, path, exc]
    its              \* locals of items(): [download_delay, n, tasks, round, i, calls,
                     \*   outcomes, sleeps]

vars == <<pc, args, skip_existing, settings, media, manifest, mime_type, stream_manifest,
          video_stream, path_file, download_skip, fs_dest, fs_dest_at_call, tmp_dir, fs_tmp,
          tmp_path_file, p_task, dl, net, log, err_at, result, its>>

\* what item() never assigns: its arguments, the settings object, the snapshot of
\* the destination, the locals of items()
inputs == <<args, skip_existing, fs_dest_at_call, its>>
parsed == <<manifest, mime_type, stream_manifest, video_stream>>
tmp_state == <<tmp_dir, fs_tmp, tmp_path_file>>

NoResult == [kind |-> "none", downloaded |-> FALSE, path |-> <<>>, exc |-> ""]
Return(downloaded, path) == [kind |-> "return", downloaded |-> downloaded, path |-> path, exc |-> ""]
Raise(exc) == [kind |-> "raise", downloaded |-> FALSE, path |-> <<>>, exc |-> exc]

NoDl == [block_size |-> <<>>, url_i |-> 0, chunk_n |-> 0, passes |-> 0,
         needs_decryption |-> <<>>, tmp_path_file_decrypted |-> <<>>]
NoNet == [instantiate |-> 0, manifest |-> 0, playlist |-> 0, content |-> 0]
NoLog == [info |-> 0, debug |-> 0, error |-> 0]
\* nothing read yet: an optional value is <<>> or <<v>>
NoSettings == [video_convert_mp4 |-> <<>>, quality_video |-> <<>>]
NoRawManifest == Garbage
\* items() not called; tasks is progress.tasks, tasks[1] the list task p_task1
NoItems == [download_delay |-> FALSE, n |-> 0, tasks |-> <<>>, round |-> 0, i |-> 0,
            calls |-> <<>>, outcomes |-> <<>>, sleeps |-> <<>>]

\* The state before a call, apart from the inputs.
Fresh ==
    /\ media = args.media
    /\ manifest = NoRawManifest
    /\ mime_type = None
    /\ stream_manifest = NoManifest
    /\ video_stream = extract_init
    /\ path_file = <<>>
    /\ download_skip = FALSE
    /\ tmp_dir = FALSE
    /\ fs_tmp = NoFiles(TmpPaths)
    /\ tmp_path_file = <<>>
    /\ p_task = NoTask
    /\ dl = NoDl
    /\ net = NoNet
    /\ log = NoLog
    /\ err_at = "none"
    /\ result = NoResult

\* Download.__init__ (lines 51-54) and the call of item() (lines 159-170).
Init ==
    /\ pc = "item"
    /\ \E m \in {None, "Track", "Video"}, it \in IdTypePairs, vd \in BOOLEAN :
          args = [media |-> m, media_id |-> it[1], media_type |-> it[2], video_download |-> vd]
    /\ skip_existing \in SkipExistingValues
    /\ settings = NoSettings
    /\ fs_dest \in {NoFiles(DestPaths),
                    [NoFiles(DestPaths) EXCEPT ![PathBase \o <<".flac">>] = OldFile]}
    /\ fs_dest_at_call = fs_dest
    /\ its = NoItems
    /\ Fresh

(***************************************************************************)
(* item(), lines 171-230.                                                  *)
(***************************************************************************)
\* An exception leaves item(): pc, result.
Raises(exc) ==
    /\ pc' = "raised"
    /\ result' = Raise(exc)

RaisesInWith_leak(exc) ==
    /\ pc' = "raised"
    /\ result' = [kind |-> "raise", downloaded |-> FALSE, path |-> <<>>, exc |-> exc]
    /\ UNCHANGED <<tmp_dir, fs_tmp>>

\* An exception leaves the with-block of lines 213-226 and then item(): the
\* temporary directory is removed on the way (TemporaryDirectory.__exit__).
RaisesInWith(exc) ==
    /\ Raises(exc)
    /\ tmp_dir' = FALSE
    /\ fs_tmp' = NoFiles(TmpPaths)

\* lines 171-175
item_resolve ==
    /\ pc = "item"
    /\ IF Truthy(args.media_id) /\ Truthy(args.media_type)
       THEN LET r == instantiate_media(args.media_type) IN
            IF r.exc # ""
            THEN Raises(r.exc) /\ UNCHANGED <<media, net>>
            ELSE /\ media' = r.media
                 /\ net' = [net EXCEPT !.instantiate = @ + 1]
                 /\ pc' = "item_video_check"
                 /\ UNCHANGED result
       ELSE IF ~Truthy(media)
            THEN Raises("MediaMissing") /\ UNCHANGED <<media, net>>
            ELSE pc' = "item_video_check" /\ UNCHANGED <<media, net, result>>
    /\ UNCHANGED <<inputs, settings, parsed, path_file, download_skip, fs_dest, tmp_state,
                   p_task, dl, log, err_at>>

item_video_check_ignored ==
    /\ pc = "item_video_check"
    /\ path_file' = PathBase
    /\ pc' = "item_manifest"
    /\ UNCHANGED <<inputs, settings, media, parsed, download_skip, fs_dest, tmp_state,
                   p_task, dl, net, log, err_at, result>>

\* lines 177-187
item_video_check ==
    /\ pc = "item_video_check"
    /\ IF ~args.video_download
       THEN /\ log' = [log EXCEPT !.info = @ + 1]
            /\ pc' = "returned"
            /\ result' = Return(FALSE, <<>>)
            /\ UNCHANGED path_file
       ELSE /\ path_file' = PathBase
            /\ pc' = "item_manifest"
            /\ UNCHANGED <<log, result>>
    /\ UNCHANGED <<inputs, settings, media, parsed, download_skip, fs_dest, tmp_state,
                   p_task, dl, net, err_at>>

\* lines 189-196: the manifest is asked of the media handle
item_manifest ==
    /\ pc = "item_manifest"
    /\ IF media = "Track"
       THEN /\ \E s \in TrackStreams : manifest' = s[1] /\ mime_type' = s[2]
            /\ net' = [net EXCEPT !.manifest = @ + 1]
            /\ pc' = "item_parse"
            /\ UNCHANGED result
       ELSE IF media = "Video"
       THEN /\ manifest' \in VideoPlaylists
            /\ mime_type' = "VIDEO"
            /\ net' = [net EXCEPT !.manifest = @ + 1]
            /\ pc' = "item_parse"
            /\ UNCHANGED result
       ELSE \* an Album, Playlist or Mix has no get_url()
            Raises("AttributeError") /\ UNCHANGED <<manifest, mime_type, net>>
    /\ UNCHANGED <<inputs, settings, media, stream_manifest, video_stream, path_file,
                   download_skip, fs_dest, tmp_state, p_task, dl, log, err_at>>

\* lines 198-201; path_file_sanitize leaves a short path as it is.  The video
\* quality is read from the settings when the playlist is parsed (line 424).
item_parse ==
    /\ pc = "item_parse"
    /\ \E q \in IF mime_type = "VIDEO" THEN {480, 720} ELSE {0} :
          LET r == stream_manifest_parse(manifest, mime_type, q) IN
          /\ settings' = IF mime_type = "VIDEO" THEN [settings EXCEPT !.quality_video = <<q>>]
                         ELSE settings
          /\ video_stream' = IF mime_type = "VIDEO" /\ manifest.form = "url"
                             THEN extract_video_stream(manifest.body, q) ELSE video_stream
          /\ net' = [net EXCEPT !.playlist = @ + r.loads]
          /\ IF r.exc # ""
             THEN Raises(r.exc) /\ UNCHANGED <<stream_manifest, path_file>>
             ELSE /\ stream_manifest' = r.sm
                  /\ path_file' = path_file \o <<r.sm.file_extension>>
                  /\ pc' = "item_skip_check"
                  /\ UNCHANGED result
    /\ UNCHANGED <<inputs, media, manifest, mime_type, download_skip, fs_dest, tmp_state,
                   p_task, dl, log, err_at>>

compute_download_skip_never == FALSE

\* lines 203-209
compute_download_skip ==
    IF skip_value(skip_existing)
    THEN check_file_exists(fs_dest, path_file, skip_existing = "ExtensionIgnore")
    ELSE FALSE

\* lines 203-214 and 227-230
item_skip_check ==
    /\ pc = "item_skip_check"
    /\ LET skip == compute_download_skip
       IN /\ download_skip' = skip
          /\ IF ~skip
             THEN /\ tmp_dir' = TRUE
                  /\ tmp_path_file' = TmpBase \o <<stream_manifest.file_extension>>
                  /\ pc' = "dl_begin"
                  /\ UNCHANGED <<log, result>>
             ELSE /\ log' = [log EXCEPT !.debug = @ + 1]
                  /\ pc' = "returned"
                  /\ result' = Return(~skip, path_file)
                  /\ UNCHANGED <<tmp_dir, tmp_path_file>>
    /\ UNCHANGED <<inputs, settings, media, parsed, path_file, fs_dest, fs_tmp, p_task, dl,
                   net, err_at>>

(***************************************************************************)
(* _download(), lines 56-136, called at line 216 with path_file =          *)
(* tmp_path_file.                                                          *)
(***************************************************************************)
urls_count == Len(stream_manifest.urls)

\* lines 76-98: the progress total and the progress task.  A single URL is
\* asked for first, for its content-length.
dl_begin ==
    /\ pc = "dl_begin"
    /\ IF urls_count > 1
       THEN /\ p_task' = add_task(urls_count, 1)
            /\ dl' = [dl EXCEPT !.block_size = <<>>]
            /\ pc' = "dl_while"
            /\ UNCHANGED <<net, err_at, result, tmp_dir, fs_tmp>>
       ELSE /\ net' = [net EXCEPT !.content = @ + 1]
            /\ \/ \E h \in ContentLengths :
                     LET total_size_in_bytes == IF h = <<>> THEN 0 ELSE h[1] IN
                     /\ p_task' = add_task(total_size_in_bytes, BlockSize)
                     /\ dl' = [dl EXCEPT !.block_size = <<BlockSize>>]
                     /\ pc' = "dl_while"
                     /\ UNCHANGED <<err_at, result, tmp_dir, fs_tmp>>
               \/ \* raise_for_status(): HTTPError, caught at line 118
                  /\ err_at' = "prelim"
                  /\ pc' = "dl_except"
                  /\ UNCHANGED <<p_task, dl, result, tmp_dir, fs_tmp>>
               \/ \* requests.get(): a timeout is no HTTPError
                  /\ err_at' = "prelim"
                  /\ RaisesInWith("Timeout")
                  /\ UNCHANGED <<p_task, dl>>
    /\ UNCHANGED <<inputs, settings, media, parsed, path_file, download_skip, fs_dest,
                   tmp_path_file, log>>

dl_while_dest ==
    /\ pc = "dl_while"
    /\ IF p_task.finished
       THEN pc' = "dl_decrypt" /\ UNCHANGED <<fs_dest, dl>>
       ELSE /\ dl.passes < MaxPasses
            /\ fs_dest' = [fs_dest EXCEPT ![path_file] = NewFile]
            /\ dl' = [dl EXCEPT !.url_i = 1, !.passes = @ + 1]
            /\ pc' = "dl_for"
    /\ UNCHANGED <<args, skip_existing, fs_dest_at_call, its, settings, media, parsed,
                   path_file, download_skip, tmp_state, p_task, net, log, err_at, result>>

dl_while_append ==
    /\ pc = "dl_while"
    /\ IF p_task.finished
       THEN pc' = "dl_decrypt" /\ UNCHANGED <<fs_tmp, dl>>
       ELSE /\ dl.passes < MaxPasses
            /\ fs_tmp' = [fs_tmp EXCEPT ![tmp_path_file] =
                             IF @.exists THEN @ ELSE NewFile]
            /\ dl' = [dl EXCEPT !.url_i = 1, !.passes = @ + 1]
            /\ pc' = "dl_for"
    /\ UNCHANGED <<inputs, settings, media, parsed, path_file, download_skip, fs_dest,
                   tmp_dir, tmp_path_file, p_task, net, log, err_at, result>>

\* lines 101-102: the test of the write loop, and the file opened "wb"
dl_while ==
    /\ pc = "dl_while"
    /\ IF p_task.finished
       THEN pc' = "dl_decrypt" /\ UNCHANGED <<fs_tmp, dl>>
       ELSE /\ dl.passes < MaxPasses
            /\ fs_tmp' = [fs_tmp EXCEPT ![tmp_path_file] = NewFile]
            /\ dl' = [dl EXCEPT !.url_i = 1, !.passes = @ + 1]
            /\ pc' = "dl_for"
    /\ UNCHANGED <<inputs, settings, media, parsed, path_file, download_skip, fs_dest,
                   tmp_dir, tmp_path_file, p_task, net, log, err_at, result>>

FirstError(at) == IF err_at = "none" THEN at ELSE err_at

\* lines 103-107: the next URL is requested, or the pass ends
dl_for ==
    /\ pc = "dl_for"
    /\ IF dl.url_i > urls_count
       THEN pc' = "dl_while" /\ UNCHANGED <<dl, net, err_at, result, tmp_dir, fs_tmp>>
       ELSE /\ net' = [net EXCEPT !.content = @ + 1]
            /\ \/ /\ dl' = [dl EXCEPT !.chunk_n = 0]
                  /\ pc' = "dl_iter"
                  /\ UNCHANGED <<err_at, result, tmp_dir, fs_tmp>>
               \/ /\ err_at' = FirstError("loop")
                  /\ pc' = "dl_except"
                  /\ UNCHANGED <<dl, result, tmp_dir, fs_tmp>>
               \/ /\ err_at' = FirstError("loop")
                  /\ RaisesInWith("Timeout")
                  /\ UNCHANGED dl
    /\ UNCHANGED <<inputs, settings, media, parsed, path_file, download_skip, fs_dest,
                   tmp_path_file, p_task, log>>

\* lines 110-117: iter_content yields the next chunk, which is written and
\* counted; or the body ends; or the connection breaks
dl_iter ==
    /\ pc = "dl_iter"
    /\ \/ /\ dl.chunk_n < MaxChunks
          /\ fs_tmp' = [fs_tmp EXCEPT ![tmp_path_file].data =
                           Append(@, <<dl.url_i, dl.chunk_n + 1>>)]
          /\ p_task' = advance(p_task)
          /\ dl' = [dl EXCEPT !.chunk_n = @ + 1]
          /\ UNCHANGED <<pc, err_at, result, tmp_dir>>
       \/ /\ dl' = [dl EXCEPT !.url_i = @ + 1]
          /\ pc' = "dl_for"
          /\ UNCHANGED <<fs_tmp, p_task, err_at, result, tmp_dir>>
       \/ /\ err_at' = FirstError("loop")
          /\ RaisesInWith("ConnectionError")
          /\ UNCHANGED <<p_task, dl>>
    /\ UNCHANGED <<inputs, settings, media, parsed, path_file, download_skip, fs_dest,
                   tmp_path_file, net, log>>

\* lines 118-120
dl_except ==
    /\ pc = "dl_except"
    /\ log' = [log EXCEPT !.error = @ + 1]
    /\ pc' = "dl_decrypt"
    /\ UNCHANGED <<inputs, settings, media, parsed, path_file, download_skip, fs_dest,
                   tmp_state, p_task, dl, net, err_at, result>>

\* helper/decryption.py decrypt_file: the plaintext of src is written to dst
decrypt_file(fs, src, dst) ==
    [fs EXCEPT ![dst] = [fs[src] EXCEPT !.decrypted = TRUE]]

decrypted_path_same(path) == path

\* line 127
decrypted_path(path) == path \o <<"_decrypted">>

\* lines 122-130; decrypt_security_token decodes the key, or fails
dl_decrypt ==
    /\ pc = "dl_decrypt"
    /\ LET needs_decryption == is_encrypted(stream_manifest.encryption_type) IN
       IF needs_decryption
       THEN \/ \* decrypt_security_token: the token does not decode
               /\ RaisesInWith(IF stream_manifest.encryption_key = None
                               THEN "TypeError" ELSE "DecodeError")
               /\ UNCHANGED dl
            \/ /\ stream_manifest.encryption_key # None
               /\ IF ~fs_tmp[tmp_path_file].exists
                  THEN RaisesInWith("FileNotFoundError") /\ UNCHANGED dl
                  ELSE /\ fs_tmp' = decrypt_file(fs_tmp, tmp_path_file,
                                                 decrypted_path(tmp_path_file))
                       /\ dl' = [dl EXCEPT
                                   !.needs_decryption = <<TRUE>>,
                                   !.tmp_path_file_decrypted = decrypted_path(tmp_path_file)]
                       /\ pc' = "dl_metadata"
                       /\ UNCHANGED <<tmp_dir, result>>
       ELSE /\ dl' = [dl EXCEPT !.needs_decryption = <<FALSE>>,
                                !.tmp_path_file_decrypted = tmp_path_file]
            /\ pc' = "dl_metadata"
            /\ UNCHANGED <<tmp_dir, fs_tmp, result>>
    /\ UNCHANGED <<inputs, settings, media, parsed, path_file, download_skip, fs_dest,
                   tmp_path_file, p_task, net, log, err_at>>

\* lines 132-136, and the assignment of line 216; metadata_write (lines 238-279)
\* tags the file in place, or fails
dl_metadata ==
    /\ pc = "dl_metadata"
    /\ LET p == dl.tmp_path_file_decrypted IN
       IF media # "Video"
       THEN \/ \* metadata_write fails (always on a file that is not there)
               /\ RaisesInWith("MetadataError")
               /\ UNCHANGED tmp_path_file
            \/ /\ fs_tmp[p].exists
               /\ fs_tmp' = [fs_tmp EXCEPT ![p].tagged = TRUE]
               /\ tmp_path_file' = p
               /\ pc' = "item_convert"
               /\ UNCHANGED <<tmp_dir, result>>
       ELSE /\ tmp_path_file' = p
            /\ pc' = "item_convert"
            /\ UNCHANGED <<tmp_dir, fs_tmp, result>>
    /\ UNCHANGED <<inputs, settings, media, parsed, path_file, download_skip, fs_dest,
                   p_task, dl, net, log, err_at>>

(***************************************************************************)
(* item(), lines 218-230.                                                  *)
(***************************************************************************)
\* lines 218-222, with _video_convert (lines 378-382)
item_convert ==
    /\ pc = "item_convert"
    /\ IF media = "Video"
       THEN \E c \in BOOLEAN :
            /\ settings' = [settings EXCEPT !.video_convert_mp4 = <<c>>]
            /\ IF c
               THEN LET path_file_out == splitext0(tmp_path_file) \o <<".mp4">> IN
                    \/ \* ffmpeg fails (always without its input, or onto its input)
                       /\ RaisesInWith("ffmpeg.Error")
                       /\ UNCHANGED <<tmp_path_file, path_file>>
                    \/ /\ fs_tmp[tmp_path_file].exists
                       /\ path_file_out # tmp_path_file
                       /\ fs_tmp' = [fs_tmp EXCEPT ![path_file_out] =
                                        [fs_tmp[tmp_path_file] EXCEPT !.converted = TRUE]]
                       /\ tmp_path_file' = path_file_out
                       /\ path_file' = splitext0(path_file) \o <<".mp4">>
                       /\ pc' = "item_move"
                       /\ UNCHANGED <<tmp_dir, result>>
               ELSE /\ pc' = "item_move"
                    /\ UNCHANGED <<tmp_state, path_file, result>>
       ELSE /\ pc' = "item_move"
            /\ UNCHANGED <<settings, tmp_state, path_file, result>>
    /\ UNCHANGED <<inputs, media, parsed, download_skip, fs_dest, p_task, dl, net, log,
                   err_at>>

item_move_skipped ==
    /\ pc = "item_move"
    /\ pc' = "item_return"
    /\ UNCHANGED <<inputs, settings, media, parsed, path_file, download_skip, fs_dest,
                   tmp_state, p_task, dl, net, log, err_at, result>>

\* lines 224-226: shutil.move
item_move ==
    /\ pc = "item_move"
    /\ \/ \* the move fails (always without its source)
          /\ RaisesInWith(IF fs_tmp[tmp_path_file].exists THEN "OSError"
                          ELSE "FileNotFoundError")
          /\ UNCHANGED fs_dest
       \/ /\ fs_tmp[tmp_path_file].exists
          /\ fs_dest' = [fs_dest EXCEPT ![path_file] = fs_tmp[tmp_path_file]]
          /\ fs_tmp' = [fs_tmp EXCEPT ![tmp_path_file] = NoFile]
          /\ pc' = "item_return"
          /\ UNCHANGED <<tmp_dir, result>>
    /\ UNCHANGED <<inputs, settings, media, parsed, path_file, download_skip,
                   tmp_path_file, p_task, dl, net, log, err_at>>

\* the end of the with-block of line 213, and line 230
item_return ==
    /\ pc = "item_return"
    /\ tmp_dir' = FALSE
    /\ fs_tmp' = NoFiles(TmpPaths)
    /\ pc' = "returned"
    /\ result' = Return(~download_skip, path_file)
    /\ UNCHANGED <<inputs, settings, media, parsed, path_file, download_skip, fs_dest,
                   tmp_path_file, p_task, dl, net, log, err_at>>

Next ==
    \/ item_resolve
    \/ item_video_check
    \/ item_manifest
    \/ item_parse
    \/ item_skip_check
    \/ dl_begin
    \/ dl_while
    \/ dl_for
    \/ dl_iter
    \/ dl_except
    \/ dl_decrypt
    \/ dl_metadata
    \/ item_convert
    \/ item_move
    \/ item_return

Spec == Init /\ [][Next]_vars

(***************************************************************************)
(* The pure functions on their own: stream_manifest_parse and              *)
(* _extract_video_stream applied to every input of the bounded sets.       *)
(***************************************************************************)
RECURSIVE SeqsUpTo(_, _)
\* the sequences over S of length at most n
SeqsUpTo(S, n) ==
    IF n = 0 THEN {<<>>}
    ELSE LET shorter == SeqsUpTo(S, n - 1)
         IN shorter \cup {Append(q, x) : q \in {t \in shorter : Len(t) = n - 1}, x \in S}

\* a rendition of vertical resolution res; its media playlist lists segment files
RenditionOf(res) == Rendition(res, <<TsUrl(0), TsUrl(1)>>)

VariantPlaylists ==
    {UrlManifest(TRUE, [i \in 1..Len(rs) |-> RenditionOf(rs[i])]) :
        rs \in SeqsUpTo(Qualities, MaxRenditions)}

MediaTemplates ==
    {<<"s", "$Number$", ".mp4">>, <<"s", ".flac", "$Number$", ".mp4">>,
     <<"$Number$", "s", "$Number$">>, <<"s", ".ts">>}

\* the r attribute of an <S> entry: absent, or an integer (-1: until the period ends)
TimelineRepeats == {<<>>, <<0>>, <<1>>, <<2>>, <<-1>>}

XmlManifests ==
    {XmlManifest(Ss, tpl) :
        Ss \in SeqsUpTo(TimelineRepeats, MaxTimeline), tpl \in MediaTemplates}

JsonObjects ==
    LET base == {JsonObject(urls, etype) :
                    urls \in {<<>>, <<FlacUrl>>, <<<<"a", ".mp4">>, FlacUrl>>, <<<<"a">>>>,
                              <<<<"a">>, FlacUrl>>, <<<<"a", ".ts", ".mp4">>>>,
                              <<<<"a", ".mp4", ".flac">>>>},
                    etype \in {"NONE", "OLD_AES", None}}
        keyed == base \cup {WithKey(o, k) : o \in base, k \in {None, "KEY"}}
    IN keyed \cup {[o EXCEPT !.codecs = "mp4a.40.2"] : o \in keyed}
             \cup {[x \in {"codecs"} |-> "flac"]}

JsonManifests == {JsonManifest(o) : o \in JsonObjects}

ManifestMimeTypes == {"MPD", "BTS", "VIDEO", "EMU", ""}

\* <<manifest, mime_type>>
ParseInputs ==
    ({Garbage} \X ManifestMimeTypes)
    \cup (XmlManifests \X {"MPD", "EMU"})
    \cup (JsonManifests \X {"BTS", "MPD", ""})
    \cup ((VariantPlaylists \cup {UrlManifest(FALSE, <<>>)}) \X {"VIDEO"})

InitPure ==
    /\ pc \in {"parse_call", "extract_call"}
    /\ args = [media |-> None, media_id |-> None, media_type |-> None, video_download |-> TRUE]
    /\ skip_existing = "Disabled"
    /\ fs_dest = NoFiles(DestPaths)
    /\ fs_dest_at_call = fs_dest
    /\ \E q \in Qualities : settings = [NoSettings EXCEPT !.quality_video = <<q>>]
    /\ \E in \in ParseInputs :
          /\ manifest = in[1]
          /\ mime_type = in[2]
          /\ pc = "extract_call" => in[1] \in VariantPlaylists
    /\ media = args.media
    /\ stream_manifest = NoManifest
    /\ video_stream = extract_init
    /\ path_file = <<>>
    /\ download_skip = FALSE
    /\ tmp_dir = FALSE
    /\ fs_tmp = NoFiles(TmpPaths)
    /\ tmp_path_file = <<>>
    /\ p_task = NoTask
    /\ dl = NoDl
    /\ net = NoNet
    /\ log = NoLog
    /\ err_at = "none"
    /\ result = NoResult
    /\ its = NoItems

\* stream_manifest_parse(manifest, mime_type), lines 384-445
parse_call ==
    /\ pc = "parse_call"
    /\ LET r == stream_manifest_parse(manifest, mime_type, settings.quality_video[1]) IN
       /\ stream_manifest' = r.sm
       /\ net' = [net EXCEPT !.playlist = @ + r.loads]
       /\ result' = IF r.exc # "" THEN Raise(r.exc) ELSE Return(TRUE, <<>>)
    /\ pc' = "parse_done"
    /\ UNCHANGED <<inputs, settings, media, manifest, mime_type, video_stream, path_file,
                   download_skip, fs_dest, tmp_state, p_task, dl, log, err_at>>

\* _extract_video_stream(m3u8_variant, quality), lines 447-462
extract_call ==
    /\ pc = "extract_call"
    /\ video_stream' = extract_video_stream(manifest.body, settings.quality_video[1])
    /\ pc' = "extract_done"
    /\ UNCHANGED <<inputs, settings, media, manifest, mime_type, stream_manifest, path_file,
                   download_skip, fs_dest, tmp_state, p_task, dl, net, log, err_at, result>>

NextPure ==
    \/ parse_call
    \/ extract_call

SpecPure == InitPure /\ [][NextPure]_vars

(***************************************************************************)
(* items(), lines 281-352.  A call of item() (lines 331-338) is one step:  *)
(* it returns (True, path) with its progress task finished, or (True,      *)
(* path) with its progress task left unfinished (lines 118-120), or        *)
(* (False, path) without a progress task (skip), or it raises.             *)
(***************************************************************************)
ItemOutcomes == {"downloaded", "unfinished", "skipped"}

\* the progress task _download added for an item and left behind
ItemTask(outcome) ==
    IF outcome = "downloaded" THEN advance(add_task(1, 1)) ELSE add_task(1, 1)

\* rich Progress.finished: every task is finished
progress_finished(tasks) == \A t \in 1..Len(tasks) : tasks[t].finished

\* the arguments items() is called with, and a fresh Progress
InitItems ==
    /\ pc = "items"
    /\ \E m \in {None, "Album", "Mix"},
          it \in {<<None, None>>, <<"id", "PLAYLIST">>, <<"id", "MIX">>, <<"id", "OTHER">>},
          vd \in BOOLEAN :
          args = [media |-> m, media_id |-> it[1], media_type |-> it[2], video_download |-> vd]
    /\ \E d \in BOOLEAN : its = [NoItems EXCEPT !.download_delay = d]
    /\ skip_existing = "Disabled"
    /\ settings = NoSettings
    /\ fs_dest = NoFiles(DestPaths)
    /\ fs_dest_at_call = fs_dest
    /\ Fresh

\* lines 295-324: the media is resolved, the collection is listed and the list
\* task is added with total = len(items)
items_begin ==
    /\ pc = "items"
    /\ LET listed(m) ==
               \E n \in 0..MaxItems :
                  /\ its' = [its EXCEPT !.n = n, !.tasks = <<add_task(n, 1)>>]
                  /\ media' = m
                  /\ pc' = "items_while"
                  /\ UNCHANGED result
       IN IF Truthy(args.media_id) /\ Truthy(args.media_type)
          THEN LET r == instantiate_media(args.media_type) IN
               IF r.exc # ""
               THEN /\ pc' = "items_raised"
                    /\ result' = Raise(r.exc)
                    /\ UNCHANGED <<media, net, its>>
               ELSE /\ net' = [net EXCEPT !.instantiate = @ + 1]
                    /\ listed(r.media)
          ELSE IF ~Truthy(media)
               THEN /\ pc' = "items_raised"
                    /\ result' = Raise("MediaMissing")
                    /\ UNCHANGED <<media, net, its>>
               ELSE listed(media) /\ UNCHANGED net
    /\ UNCHANGED <<args, skip_existing, fs_dest_at_call, settings, parsed, path_file,
                   download_skip, fs_dest, tmp_state, p_task, dl, log, err_at>>

\* line 327: the test of the list loop; line 328: the for loop starts over
items_while ==
    /\ pc = "items_while"
    /\ IF progress_finished(its.tasks)
       THEN pc' = "items_done" /\ UNCHANGED its
       ELSE /\ its.round < MaxRounds
            /\ its' = [its EXCEPT !.round = @ + 1, !.i = 1]
            /\ pc' = "items_for"
    /\ UNCHANGED <<args, skip_existing, fs_dest_at_call, settings, media, parsed, path_file,
                   download_skip, fs_dest, tmp_state, p_task, dl, net, log, err_at, result>>

\* lines 328-341: the next element is handed to item() and the list task is
\* advanced, or the for loop is over
items_for ==
    /\ pc = "items_for"
    /\ IF its.i > its.n
       THEN pc' = "items_while" /\ UNCHANGED <<its, result>>
       ELSE \/ \E outcome \in ItemOutcomes :
                 LET tasks_added == IF outcome = "skipped" THEN its.tasks
                                    ELSE Append(its.tasks, ItemTask(outcome)) IN
                 /\ its' = [its EXCEPT
                               !.calls = Append(@, its.i),
                               !.outcomes = Append(@, outcome),
                               !.tasks = [k \in 1..Len(tasks_added) |->
                                             IF k = 1 THEN advance(tasks_added[1])
                                             ELSE tasks_added[k]]]
                 /\ pc' = "items_delay"
                 /\ UNCHANGED result
            \/ \* item() raises: the exception leaves items()
               /\ its' = [its EXCEPT !.calls = Append(@, its.i)]
               /\ pc' = "items_raised"
               /\ result' = Raise("ItemError")
    /\ UNCHANGED <<args, skip_existing, fs_dest_at_call, settings, media, parsed, path_file,
                   download_skip, fs_dest, tmp_state, p_task, dl, net, log, err_at>>

\* lines 347-352: the delay before the next element
items_delay ==
    /\ pc = "items_delay"
    /\ LET status_download == its.outcomes[Len(its.outcomes)] # "skipped" IN
       its' = [its EXCEPT !.i = @ + 1,
                          !.sleeps = IF its.download_delay /\ status_download
                                     THEN Append(@, Len(its.calls)) ELSE @]
    /\ pc' = "items_for"
    /\ UNCHANGED <<args, skip_existing, fs_dest_at_call, settings, media, parsed, path_file,
                   download_skip, fs_dest, tmp_state, p_task, dl, net, log, err_at, result>>

NextItems ==
    \/ items_begin
    \/ items_while
    \/ items_for
    \/ items_delay

SpecItems == InitItems /\ [][NextItems]_vars

(***************************************************************************)
(* Properties.                                                             *)
(***************************************************************************)
Exited == pc \in {"returned", "raised"}

\* item() created, replaced or changed a file at a destination path
DestWritten == fs_dest # fs_dest_at_call

\* item() never created its temporary directory or a temporary file
NoTmpEver == ~tmp_dir /\ tmp_path_file = <<>> /\ fs_tmp = NoFiles(TmpPaths)

PairComplete == Truthy(args.media_id) /\ Truthy(args.media_type)

\* C1: when a transport error happened in the fetch loop of _download, no file
\* written by this call is at a destination path once item() has returned or raised.
C1_NoPartialPromotion ==
    (Exited /\ err_at = "loop") => ~DestWritten

\* The skip case of C2: the skip policy is enabled and a file was already at the
\* computed destination path when item() was called.
C2_SkipCase ==
    /\ Exited
    /\ skip_value(skip_existing)
    /\ stream_manifest # NoManifest
    /\ fs_dest_at_call[PathBase \o <<stream_manifest.file_extension>>].exists

\* C2 as stated: in the skip case item() returns (False, path) and issued no
\* network request at all.
C2_SkipNoRequests ==
    C2_SkipCase => (result = Return(FALSE, path_file) /\ net = NoNet)

\* C2 amended: in the skip case item() returns (False, path), issued no content
\* request (neither the preliminary one nor a segment or chunk fetch), created no
\* temporary file and left the destination as it was; the manifest was fetched
\* once before the check.
C2_SkipNoDownload ==
    C2_SkipCase =>
        /\ result = Return(FALSE, path_file)
        /\ net.content = 0
        /\ net.manifest = 1
        /\ NoTmpEver
        /\ p_task = NoTask
        /\ ~DestWritten

C2_Witness ==
    /\ C2_SkipCase
    /\ download_skip
    /\ result = Return(FALSE, PathBase \o <<".flac">>)
    /\ net.manifest = 1

\* C3: once a transport error happened in the fetch loop, _download goes on to
\* decryption, tagging or its return only with the progress task finished.
C3_RetryUntilFinished ==
    (err_at = "loop" /\ pc \in {"dl_decrypt", "dl_metadata", "item_convert", "item_move",
                                 "item_return", "returned"})
        => p_task.finished

\* C4: item() without a media handle and without a complete (media_type, media_id)
\* pair ends with MediaMissing, item() with a media id and an unrecognized media
\* type ends with MediaUnknown, and in both cases it issued no request, created no
\* temporary file and did not touch the destination.
C4_ResolveErrors ==
    /\ (~Truthy(args.media) /\ ~PairComplete /\ pc \in {"item", "raised"})
          => /\ pc = "raised" => result = Raise("MediaMissing")
             /\ net = NoNet /\ NoTmpEver /\ ~DestWritten
    /\ (PairComplete /\ args.media_type = "OTHER" /\ pc \in {"item", "raised"})
          => /\ pc = "raised" => result = Raise("MediaUnknown")
             /\ net = NoNet /\ NoTmpEver /\ ~DestWritten
    /\ ((~Truthy(args.media) /\ ~PairComplete) \/ (PairComplete /\ args.media_type = "OTHER"))
          => pc \in {"item", "raised"}

C4_Witness ==
    /\ pc = "raised"
    /\ result = Raise("MediaUnknown")
    /\ Truthy(args.media)

RecognizedMimeTypes == {"MPD", "BTS", "VIDEO"}

\* C5: with a manifest MIME type that is none of MPD, BTS, VIDEO, the parse raises
\* UnknownManifestFormat and gives no StreamManifest, and item() ends with that
\* error, with no temporary file created and nothing written at the destination.
C5_UnknownManifestFormat ==
    (mime_type # None /\ mime_type \notin RecognizedMimeTypes) =>
        /\ pc \in {"item_parse", "raised"}
        /\ pc = "raised" => result = Raise("UnknownManifestFormat")
        /\ stream_manifest = NoManifest
        /\ NoTmpEver
        /\ net.content = 0
        /\ ~DestWritten

C5_Witness ==
    /\ pc = "raised"
    /\ result = Raise("UnknownManifestFormat")
    /\ mime_type = "EMU"

\* C6 as stated: with video download disabled, item() returns (False, "") and
\* issued no network request at all, the media instantiation included.
C6_NoNetworkAtAll ==
    (pc = "returned" /\ ~args.video_download) =>
        (result = Return(FALSE, <<>>) /\ net = NoNet)

\* C6 amended: with video download disabled, item() goes no further than the
\* check: if the media resolves it returns (False, ""), with no manifest, playlist
\* or content request, no temporary file and no destination write; the media
\* instantiation of a complete (media_type, media_id) pair is the one request made.
C6_NoOpAfterResolve ==
    ~args.video_download =>
        /\ pc \in {"item", "item_video_check", "returned", "raised"}
        /\ pc = "returned" => result = Return(FALSE, <<>>)
        /\ pc = "raised" => result.exc \in {"MediaMissing", "MediaUnknown"}
        /\ net.manifest = 0 /\ net.playlist = 0 /\ net.content = 0
        /\ net.instantiate = IF PairComplete /\ pc \in {"item_video_check", "returned"}
                             THEN 1 ELSE 0
        /\ NoTmpEver
        /\ ~DestWritten

C6_Witness ==
    /\ pc = "returned"
    /\ ~args.video_download
    /\ net.instantiate = 1
    /\ result = Return(FALSE, <<>>)

\* C7: every StreamManifest that stream_manifest_parse returns has
\* encryption_key None exactly when its encryption_type is "NONE".
C7_KeyIffEncrypted ==
    (pc = "parse_done" /\ result.kind = "return") =>
        ((stream_manifest.encryption_key = None) <=> (stream_manifest.encryption_type = "NONE"))

\* the resolutions listed by the multivariant playlist given to _extract_video_stream
Listed == [i \in 1..Len(manifest.body.playlists) |-> manifest.body.playlists[i].resolution]

\* C8: when a listed rendition has exactly the target resolution, the selected
\* rendition has that resolution.
C8_ExactMatchWins ==
    (pc = "extract_done" /\ \E i \in DOMAIN Listed : Listed[i] = settings.quality_video[1]) =>
        /\ video_stream.m3u8_playlist # 0
        /\ Listed[video_stream.m3u8_playlist] = settings.quality_video[1]

\* C9: the selected rendition has the greatest resolution among the listed
\* renditions that do not exceed the target, whenever there is such a rendition.
C9_MaxNotExceedingTarget ==
    (pc = "extract_done" /\ \E i \in DOMAIN Listed : Listed[i] <= settings.quality_video[1]) =>
        /\ video_stream.m3u8_playlist # 0
        /\ Listed[video_stream.m3u8_playlist] <= settings.quality_video[1]
        /\ \A i \in DOMAIN Listed :
              Listed[i] <= settings.quality_video[1]
                 => Listed[i] <= Listed[video_stream.m3u8_playlist]

AnyDecrypted == \E p \in DOMAIN fs_tmp : fs_tmp[p].decrypted

\* C10: decryption has run when _download reaches tagging exactly if the
\* encryption type is not "NONE", and never before the write loop was left; the
\* plaintext is then at another path than the downloaded file, which is as it was
\* written; the path _download returns is the plaintext path.
C10_DecryptAfterLoop ==
    /\ pc \in {"item", "item_video_check", "item_manifest", "item_parse", "item_skip_check",
               "dl_begin", "dl_while", "dl_for", "dl_iter", "dl_except", "dl_decrypt"}
          => ~AnyDecrypted
    /\ pc = "dl_metadata" =>
          LET enc == stream_manifest.encryption_type # "NONE"
              out == dl.tmp_path_file_decrypted
          IN /\ AnyDecrypted <=> enc
             /\ dl.needs_decryption = <<enc>>
             /\ enc => /\ out # tmp_path_file
                       /\ fs_tmp[out].exists /\ fs_tmp[out].decrypted
                       /\ fs_tmp[tmp_path_file].exists /\ ~fs_tmp[tmp_path_file].decrypted
                       /\ fs_tmp[out].data = fs_tmp[tmp_path_file].data
             /\ ~enc => out = tmp_path_file
    /\ pc = "item_convert" => tmp_path_file = dl.tmp_path_file_decrypted

C10_Witness ==
    /\ pc = "item_convert"
    /\ dl.needs_decryption = <<TRUE>>
    /\ fs_tmp[tmp_path_file].decrypted
    /\ p_task.finished

\* item() created its temporary file path: it entered the Downloading state
EnteredDownloading == tmp_path_file # <<>>

\* C11: once item() has returned or raised after entering Downloading, the
\* temporary directory and every file in it are gone: the result was promoted to
\* the final path (item() returned) or discarded (item() raised).
C11_TmpGone ==
    (Exited /\ EnteredDownloading) =>
        /\ ~tmp_dir
        /\ fs_tmp = NoFiles(TmpPaths)
        /\ \/ pc = "returned" /\ result.downloaded /\ fs_dest[path_file].origin = "item"
           \/ pc = "raised" /\ ~DestWritten

C11_Witness ==
    /\ pc = "raised"
    /\ EnteredDownloading
    /\ result = Raise("OSError")
    /\ p_task.finished

AfterResolve == {"item_video_check", "item_manifest", "item_parse", "item_skip_check",
                 "dl_begin", "dl_while", "dl_for", "dl_iter", "dl_except", "dl_decrypt",
                 "dl_metadata", "item_convert", "item_move", "item_return"}
AfterManifest == AfterResolve \ {"item_video_check", "item_manifest"}
AfterParse == AfterManifest \ {"item_parse"}
AfterSkipCheck == AfterParse \ {"item_skip_check"}
AfterDecrypt == {"dl_metadata", "item_convert", "item_move", "item_return"}

\* C12: the states of item() are passed in the order Resolved, ManifestFetched,
\* PathComputed, SkipCheck, then Skip or Downloading, Decrypting (if encrypted),
\* Placed; item() returns downloaded = True with path p only with the result
\* moved to p (p ending in .mp4 when the video was converted), and downloaded =
\* False when nothing was placed.
C12_StateOrder ==
    /\ pc \in AfterResolve => Truthy(media)
    /\ pc \in AfterManifest => net.manifest = 1
    /\ net.manifest = 1 => Truthy(media)
    /\ pc \in AfterParse => /\ stream_manifest # NoManifest
                            /\ net.manifest = 1
                            /\ Len(path_file) = 2
    /\ stream_manifest # NoManifest => net.manifest = 1
    /\ pc \in AfterSkipCheck => /\ ~download_skip
                                /\ stream_manifest # NoManifest
                                /\ EnteredDownloading
    /\ EnteredDownloading => stream_manifest # NoManifest /\ ~download_skip
    /\ p_task.exists => EnteredDownloading
    /\ AnyDecrypted => p_task.exists /\ pc \in AfterDecrypt
    /\ DestWritten =>
          /\ pc \in {"item_return", "returned"}
          /\ p_task.exists
          /\ fs_dest[path_file].decrypted <=> is_encrypted(stream_manifest.encryption_type)
    /\ (pc = "returned" /\ result.downloaded) =>
          /\ DestWritten
          /\ result.path = path_file
          /\ fs_dest[path_file].origin = "item"
          /\ fs_dest[path_file].converted => path_file[2] = ".mp4"
    /\ (pc = "returned" /\ ~DestWritten) => ~result.downloaded
    /\ (pc = "returned" /\ download_skip) => ~EnteredDownloading /\ ~DestWritten

C12_Witness ==
    /\ pc = "returned"
    /\ result.downloaded
    /\ fs_dest[result.path].converted
    /\ result.path = PathBase \o <<".mp4">>

\* C13: until the final move the destination is as it was when item() was called.
C13_DestUntouchedBeforeMove ==
    pc \notin {"item_return", "returned"} => fs_dest = fs_dest_at_call

C13_Witness ==
    /\ pc = "item_move"
    /\ fs_dest = fs_dest_at_call
    /\ fs_tmp[tmp_path_file].exists
    /\ fs_tmp[tmp_path_file].data # <<>>
    /\ fs_tmp[tmp_path_file].tagged

\* the write loop of _download was left by its test (line 101), not by an exception
LoopExitedFinished == pc = "dl_decrypt" /\ err_at = "none"

\* data is the chunks of URLs 1..n in URL order, each URL's chunks once and in
\* the order they were yielded
OnePass(data, n) ==
    \A i \in 1..Len(data) :
        /\ data[i][1] \in 1..n
        /\ IF i = 1
           THEN data[i][2] = 1
           ELSE \/ data[i][1] = data[i - 1][1] /\ data[i][2] = data[i - 1][2] + 1
                \/ data[i][1] > data[i - 1][1] /\ data[i][2] = 1

\* C14: when the write loop of _download is left because the progress task is
\* finished, the output file holds one complete pass: the content of every URL,
\* each once, in manifest order, and nothing of an earlier pass.
C14_OneCompletePass ==
    LoopExitedFinished =>
        /\ p_task.finished
        /\ dl.passes >= 1
        /\ dl.url_i = urls_count + 1
        /\ fs_tmp[tmp_path_file].exists
        /\ fs_tmp[tmp_path_file].origin = "item"
        /\ OnePass(fs_tmp[tmp_path_file].data, urls_count)

C14_Witness ==
    /\ LoopExitedFinished
    /\ dl.passes = 2
    /\ urls_count = 2
    /\ Len(fs_tmp[tmp_path_file].data) > 2

\* C15: for a manifest of N > 1 URLs the progress task has total N, its completed
\* count is the number of segments fully written so far (never above N), and it
\* is finished exactly when the N-th segment has been written.
C15_SegmentProgress ==
    (urls_count > 1 /\ p_task.exists) =>
        /\ p_task.total_num = urls_count
        /\ p_task.total_den = 1
        /\ p_task.completed <= urls_count
        /\ (dl.passes = 1 /\ pc = "dl_for") =>
              /\ p_task.completed = dl.url_i - 1
              /\ p_task.finished <=> dl.url_i - 1 = urls_count

\* stream_manifest_parse was applied to an adaptive-streaming manifest
MpdParsed == pc = "parse_done" /\ mime_type = "MPD" /\ manifest.form = "xml"

\* 2 plus, for every timeline entry, its r if present and non-zero, else 1
ExpectedSegments(Ss) ==
    LET sum[k \in 0..Len(Ss)] ==
            IF k = 0 THEN 2
            ELSE sum[k - 1] + (IF Ss[k] = <<>> THEN 1
                               ELSE IF Ss[k][1] = 0 THEN 1 ELSE Ss[k][1])
    IN sum[Len(Ss)]

\* the decimal numeral of i < 100
Numeral(i) ==
    IF i < 10 THEN <<Digits[i + 1]>>
    ELSE <<Digits[(i \div 10) + 1], Digits[(i % 10) + 1]>>

\* the media pattern tpl with every $Number$ replaced by the numeral of i
ExpectedUrl(tpl, i) ==
    LET out[k \in 0..Len(tpl)] ==
            IF k = 0 THEN <<>>
            ELSE out[k - 1] \o (IF tpl[k] = "$Number$" THEN Numeral(i) ELSE <<tpl[k]>>)
    IN out[Len(tpl)]

\* C16: for the MPD form the URL list has 2 + sum over the timeline entries S of
\* (S.r if present and non-zero, else 1) URLs, and its i-th URL (i from 0) is the
\* media pattern with $Number$ replaced by i; r = 2, None, 0 give 6 URLs.  (A
\* count that is not positive gives no manifest: IndexError.)
C16_MpdSegmentUrls ==
    MpdParsed =>
        LET n == ExpectedSegments(manifest.body.Ss) IN
        IF n <= 0 THEN result = Raise("IndexError")
        ELSE /\ result.kind = "return"
             /\ Len(stream_manifest.urls) = n
             /\ \A i \in 0..(n - 1) :
                   stream_manifest.urls[i + 1] = ExpectedUrl(manifest.body.media, i)

C16_Witness ==
    /\ MpdParsed
    /\ manifest.body.Ss = <<<<2>>, <<>>, <<0>>>>
    /\ manifest.body.media = <<"s", "$Number$", ".mp4">>
    /\ Len(stream_manifest.urls) = 6
    /\ stream_manifest.urls[6] = <<"s", "5", ".mp4">>

\* stream_manifest_parse returned a StreamManifest
ManifestProduced == pc = "parse_done" /\ result.kind = "return"

\* the tokens of a URL
Tokens(url) == {url[k] : k \in 1..Len(url)}

\* C17: the file_extension of a StreamManifest comes from its first URL alone:
\* .flac if that URL contains .flac, else .mp4 if it contains .mp4, else .ts if
\* it contains .ts, else .m4a, whatever the codec is.
C17_ExtensionFromFirstUrl ==
    ManifestProduced =>
        LET first == Tokens(stream_manifest.urls[1]) IN
        stream_manifest.file_extension =
            CASE ".flac" \in first -> ".flac"
              [] ".flac" \notin first /\ ".mp4" \in first -> ".mp4"
              [] {".flac", ".mp4"} \cap first = {} /\ ".ts" \in first -> ".ts"
              [] {".flac", ".mp4", ".ts"} \cap first = {} -> ".m4a"

C17_Witness ==
    /\ ManifestProduced
    /\ {".flac", ".mp4"} \subseteq Tokens(stream_manifest.urls[1])
    /\ stream_manifest.codecs = "mp4a.40.2"
    /\ stream_manifest.file_extension = ".flac"

\* C18: while every request of _download has succeeded, the write loop makes
\* one pass over the URLs and no second one, whatever the manifest, the reported
\* content length and the number of chunks the responses yield.
C18_OnePassWhenAllSucceed ==
    err_at = "none" => dl.passes <= 1

\* C19: items() ends after one pass over the collection in which item() is
\* called exactly once per element, in listed order, whatever the size of the
\* collection and the outcomes of the downloads; it sleeps only after an item that
\* was downloaded, and only with the delay enabled.
C19_OncePerElement ==
    pc \in {"items_while", "items_for", "items_delay", "items_done", "items_raised"} =>
        /\ Len(its.calls) <= its.n
        /\ \A k \in 1..Len(its.calls) : its.calls[k] = k
        /\ (pc = "items_while" /\ its.round >= 1) => progress_finished(its.tasks)
        /\ pc = "items_done" => Len(its.calls) = its.n
        /\ \A k \in 1..Len(its.sleeps) :
              its.download_delay /\ its.outcomes[its.sleeps[k]] # "skipped"

====
